---- MODULE Spec2Model ----
(***************************************************************************)
(* A model of the annotation transformers of golembase-js-transformations. *)
(*                                                                         *)
(* The repository holds three generations of the same module:              *)
(*   "index_v1"  src/src/index.ts lines 1-81    (scalar pair only)         *)
(*   "index_v2"  src/src/index.ts lines 82-303  (scalar and list pairs)    *)
(*   "part_001"  src/unnamed/part_001           (scalar, list, payload)    *)
(* The variable `variant` says which generation the caller has imported.   *)
(*                                                                         *)
(* JavaScript strings are modelled as sequences of one-character strings,  *)
(* so that String(), join, split, trim, parseFloat, Number, JSON.stringify *)
(* and JSON.parse are computed character by character.                     *)
(*                                                                         *)
(* A JavaScript value is a record [kind, n, s, c]:                         *)
(*   kind "num"   a finite number n (integers only in this model)          *)
(*   kind "nan"   NaN            kind "inf"  Infinity (n = 1) / -Infinity  *)
(*   kind "str"   the string s   kind "bool" n = 1 for true, 0 for false   *)
(*   kind "null", "undef"                                                  *)
(*   kind "obj"   c = the own enumerable fields <<[k, v], ...>> in         *)
(*                iteration order, keys distinct                           *)
(*   kind "arr"   c = the elements <<[k |-> <<>>, v], ...>>                 *)
(***************************************************************************)
EXTENDS Integers, Sequences, FiniteSets

VARIABLES
  variant,      \* the generation of the module the caller imports
  op,           \* the last call made, "init" before the first
  input,        \* what the caller starts from: [kind, pojo, indexes]
  flags,        \* the convertBools and sort of the last decoder call, and
                \* the sort of the last list encoder call (encodeSort)
  annotations,  \* the annotation collection last returned, or the one given
  result,       \* the record last returned by a decoder or by unpack
  payload,      \* dataAsString: last returned by pack, or the text given
  thrown        \* the error the last call threw: [name, message]

vars == <<variant, op, input, flags, annotations, result, payload, thrown>>

\* ------------------------------------------------------------------ bounds
MaxFields == 2      \* fields of a scalar record
MaxArrayLen == 2    \* elements of an array of a list record
MaxTextLen == 4     \* characters of an arbitrary payload text

\* ------------------------------------------------------------ JS values
Num(i) == [kind |-> "num", n |-> i, s |-> <<>>, c |-> <<>>]
NaN == [kind |-> "nan", n |-> 0, s |-> <<>>, c |-> <<>>]
Infinity == [kind |-> "inf", n |-> 1, s |-> <<>>, c |-> <<>>]
Str(chars) == [kind |-> "str", n |-> 0, s |-> chars, c |-> <<>>]
Bool(b) == [kind |-> "bool", n |-> IF b THEN 1 ELSE 0, s |-> <<>>, c |-> <<>>]
Null == [kind |-> "null", n |-> 0, s |-> <<>>, c |-> <<>>]
Undefined == [kind |-> "undef", n |-> 0, s |-> <<>>, c |-> <<>>]
Obj(fields) == [kind |-> "obj", n |-> 0, s |-> <<>>, c |-> fields]
Arr(elems) == [kind |-> "arr", n |-> 0, s |-> <<>>,
               c |-> [i \in 1..Len(elems) |-> [k |-> <<>>, v |-> elems[i]]]]
Field(key, value) == [k |-> key, v |-> value]
Elems(a) == [i \in 1..Len(a.c) |-> a.c[i].v]
Keys(o) == {o.c[i].k : i \in 1..Len(o.c)}
HasOwn(o, key) == \E i \in 1..Len(o.c) : o.c[i].k = key
Get(o, key) == IF HasOwn(o, key)
               THEN o.c[CHOOSE i \in 1..Len(o.c) : o.c[i].k = key].v
               ELSE Undefined

\* typeof value
TypeOf(v) ==
  CASE v.kind \in {"num", "nan", "inf"} -> "number"
    [] v.kind = "str" -> "string"
    [] v.kind = "bool" -> "boolean"
    [] v.kind = "undef" -> "undefined"
    [] OTHER -> "object"

\* isNaN(value) for a value of type number
IsNaN(v) == v.kind = "nan"

\* ---------------------------------------------------------- characters
Digits == <<"0", "1", "2", "3", "4", "5", "6", "7", "8", "9">>
IsDigit(ch) == \E i \in 1..10 : Digits[i] = ch
DigitVal(ch) == (CHOOSE i \in 1..10 : Digits[i] = ch) - 1

\* the string literals of the source, spelt out
sTrue == <<"t", "r", "u", "e">>
sFalse == <<"f", "a", "l", "s", "e">>
sNull == <<"n", "u", "l", "l">>
sUndefined == <<"u", "n", "d", "e", "f", "i", "n", "e", "d">>
sNaN == <<"N", "a", "N">>
sInfinity == <<"I", "n", "f", "i", "n", "i", "t", "y">>
sObject == <<"[", "o", "b", "j", "e", "c", "t", " ", "O", "b", "j", "e", "c", "t", "]">>
sEntityKey == <<"e", "n", "t", "i", "t", "y", "K", "e", "y">>

RECURSIVE NatToString(_)
NatToString(i) ==
  IF i < 10 THEN <<Digits[i + 1]>>
  ELSE NatToString(i \div 10) \o <<Digits[(i % 10) + 1]>>

\* Number.prototype.toString for the integers of the model
NumberToString(i) == IF i < 0 THEN <<"-">> \o NatToString(-i) ELSE NatToString(i)

RECURSIVE Join(_, _)
\* strs joined with sep between them
Join(strs, sep) ==
  IF Len(strs) = 0 THEN <<>>
  ELSE IF Len(strs) = 1 THEN strs[1]
  ELSE strs[1] \o sep \o Join(Tail(strs), sep)

RECURSIVE ToString(_)
\* String(value), the ToString of ECMAScript; an array stringifies as its
\* join(','), in which null and undefined elements are empty.
ToString(v) ==
  CASE v.kind = "num" -> NumberToString(v.n)
    [] v.kind = "nan" -> sNaN
    [] v.kind = "inf" -> IF v.n < 0 THEN <<"-">> \o sInfinity ELSE sInfinity
    [] v.kind = "str" -> v.s
    [] v.kind = "bool" -> IF v.n = 1 THEN sTrue ELSE sFalse
    [] v.kind = "null" -> sNull
    [] v.kind = "undef" -> sUndefined
    [] v.kind = "obj" -> sObject
    [] v.kind = "arr" ->
         Join([i \in 1..Len(v.c) |->
                 IF v.c[i].v.kind \in {"null", "undef"} THEN <<>>
                 ELSE ToString(v.c[i].v)], <<",">>)

\* Boolean(value) for a string: true exactly for the non-empty strings
ToBoolean(chars) == Len(chars) > 0

\* ------------------------------------------------------ scalar encoder
Annotation(key, value) == [key |-> key, value |-> value]

Annotations(strs, nums) == [stringAnnotations |-> strs, numericAnnotations |-> nums]

\* typeof value === 'number', the NaN check left out
IsNumericValue_typeofOnly(value) == TypeOf(value) = "number"

\* typeof value === 'number' && !isNaN(value)
IsNumericValue(value) == TypeOf(value) = "number" /\ ~IsNaN(value)

RECURSIVE SelectAnnotations(_, _, _)
\* the loop of transformPOJOToKeyValuePairs over Object.entries(myobj),
\* restricted to one of the two output arrays
SelectAnnotations(fields, i, numeric) ==
  IF i > Len(fields) THEN <<>>
  ELSE LET value == fields[i].v
           isNum == IsNumericValue(value)
           rest == SelectAnnotations(fields, i + 1, numeric)
       IN IF numeric
          THEN IF isNum THEN <<Annotation(fields[i].k, value)>> \o rest ELSE rest
          ELSE IF isNum THEN rest
               ELSE <<Annotation(fields[i].k, ToString(value))>> \o rest

transformPOJOToKeyValuePairs(myobj) ==
  Annotations(SelectAnnotations(myobj.c, 1, FALSE),
              SelectAnnotations(myobj.c, 1, TRUE))

\* ------------------------------------------------------ scalar decoder
\* pojo[key] = value: an existing key keeps its place, a new key is appended
SetField(o, key, value) ==
  IF HasOwn(o, key)
  THEN Obj([i \in 1..Len(o.c) |-> IF o.c[i].k = key THEN Field(key, value) ELSE o.c[i]])
  ELSE Obj(Append(o.c, Field(key, value)))

\* the flag left unread: 'true' and 'false' always become booleans
DecodeStringStrict_ignoresFlag(value, convertBools) ==
  IF value = sTrue \/ value = sFalse THEN Bool(value = sTrue) ELSE Str(value)

\* index.ts:140-145 and part_001:48-53: strict comparison, value === 'true'
DecodeStringStrict(value, convertBools) ==
  IF convertBools /\ (value = sTrue \/ value = sFalse)
  THEN Bool(value = sTrue)
  ELSE Str(value)

\* index.ts:44-49: Boolean(annotation.value), true for every non-empty string
DecodeStringLoose(value, convertBools) ==
  IF convertBools /\ (value = sTrue \/ value = sFalse)
  THEN Bool(ToBoolean(value))
  ELSE Str(value)

DecodeString(v, value, convertBools) ==
  IF v = "index_v1" THEN DecodeStringLoose(value, convertBools)
  ELSE DecodeStringStrict(value, convertBools)

RECURSIVE DecodeStrings(_, _, _, _, _)
DecodeStrings(v, anns, i, convertBools, pojo) ==
  IF i > Len(anns) THEN pojo
  ELSE DecodeStrings(v, anns, i + 1, convertBools,
         SetField(pojo, anns[i].key, DecodeString(v, anns[i].value, convertBools)))

RECURSIVE DecodeNumerics(_, _, _)
DecodeNumerics(anns, i, pojo) ==
  IF i > Len(anns) THEN pojo
  ELSE DecodeNumerics(anns, i + 1, SetField(pojo, anns[i].key, anns[i].value))

\* transformAnnotationsToPOJO of generation v
transformAnnotationsToPOJO(v, anns, convertBools) ==
  DecodeNumerics(anns.numericAnnotations, 1,
    DecodeStrings(v, anns.stringAnnotations, 1, convertBools, Obj(<<>>)))

\* ------------------------------------------------------ string order
Upper == <<"A", "B", "C", "D", "E", "F", "G", "H", "I", "J", "K", "L", "M",
           "N", "O", "P", "Q", "R", "S", "T", "U", "V", "W", "X", "Y", "Z">>
Lower == <<"a", "b", "c", "d", "e", "f", "g", "h", "i", "j", "k", "l", "m",
           "n", "o", "p", "q", "r", "s", "t", "u", "v", "w", "x", "y", "z">>
IsUpper(ch) == \E i \in 1..26 : Upper[i] = ch
IsLower(ch) == \E i \in 1..26 : Lower[i] = ch
LetterIndex(ch) == IF IsUpper(ch) THEN CHOOSE i \in 1..26 : Upper[i] = ch
                   ELSE CHOOSE i \in 1..26 : Lower[i] = ch

\* the UTF-16 code unit of a character of the model's alphabet
CharCode(ch) ==
  CASE IsDigit(ch) -> 48 + DigitVal(ch)
    [] IsUpper(ch) -> 64 + LetterIndex(ch)
    [] IsLower(ch) -> 96 + LetterIndex(ch)
    [] ch = " " -> 32
    [] ch = "\"" -> 34
    [] ch = "+" -> 43
    [] ch = "," -> 44
    [] ch = "-" -> 45
    [] ch = "." -> 46
    [] ch = ":" -> 58
    [] ch = "[" -> 91
    [] ch = "\\" -> 92
    [] ch = "]" -> 93
    [] ch = "{" -> 123
    [] ch = "}" -> 125

\* the primary collation weight of a character under the root locale:
\* white space, then punctuation, then digits, then letters without case
PrimaryWeight(ch) ==
  CASE IsDigit(ch) -> 20 + DigitVal(ch)
    [] IsUpper(ch) \/ IsLower(ch) -> 30 + LetterIndex(ch)
    [] ch = " " -> 1
    [] ch = "-" -> 2
    [] ch = "," -> 3
    [] ch = ":" -> 4
    [] ch = "." -> 5
    [] ch = "\"" -> 6
    [] ch = "[" -> 7
    [] ch = "]" -> 8
    [] ch = "{" -> 9
    [] ch = "}" -> 10
    [] ch = "\\" -> 11
    [] ch = "+" -> 12

\* the tertiary weight: a lower-case letter before its upper-case form
CaseWeight(ch) == IF IsUpper(ch) THEN 1 ELSE 0

RECURSIVE LexCompare(_, _, _, _)
\* -1, 0 or 1: a against b, position by position from i, by weight "code",
\* "primary" or "case"; a proper prefix comes first
LexCompare(a, b, i, weight) ==
  IF i > Len(a) /\ i > Len(b) THEN 0
  ELSE IF i > Len(a) THEN -1
  ELSE IF i > Len(b) THEN 1
  ELSE LET wa == CASE weight = "code" -> CharCode(a[i])
                   [] weight = "primary" -> PrimaryWeight(a[i])
                   [] OTHER -> CaseWeight(a[i])
           wb == CASE weight = "code" -> CharCode(b[i])
                   [] weight = "primary" -> PrimaryWeight(b[i])
                   [] OTHER -> CaseWeight(b[i])
       IN IF wa < wb THEN -1
          ELSE IF wa > wb THEN 1
          ELSE LexCompare(a, b, i + 1, weight)

\* the comparison of Array.prototype.sort() without a comparator:
\* the string forms, by UTF-16 code units
CodeUnitCompare(a, b) == LexCompare(a, b, 1, "code")

\* String.prototype.localeCompare: the primary weights decide, the case
\* breaks a tie
LocaleCompare(a, b) ==
  LET p == LexCompare(a, b, 1, "primary")
  IN IF p # 0 THEN p ELSE LexCompare(a, b, 1, "case")

\* the comparator of a sort call, by name
Compare(how, a, b) ==
  CASE how = "default" -> CodeUnitCompare(ToString(a), ToString(b))
    [] how = "locale" -> LocaleCompare(ToString(a), ToString(b))
    [] OTHER -> IF a.n < b.n THEN -1 ELSE IF a.n > b.n THEN 1 ELSE 0

RECURSIVE Insert(_, _, _)
\* x placed after every element of the sorted seq that does not come after it
Insert(how, sorted, x) ==
  IF Len(sorted) = 0 THEN <<x>>
  ELSE IF Compare(how, sorted[Len(sorted)], x) <= 0 THEN Append(sorted, x)
  ELSE Append(Insert(how, SubSeq(sorted, 1, Len(sorted) - 1), x), sorted[Len(sorted)])

RECURSIVE SortFrom(_, _, _, _)
SortFrom(how, seq, i, sorted) ==
  IF i > Len(seq) THEN sorted
  ELSE SortFrom(how, seq, i + 1, Insert(how, sorted, seq[i]))

\* Array.prototype.sort: stable, by the named comparator
Sort(how, seq) == SortFrom(how, seq, 1, <<>>)

\* (a, b) => a.localeCompare(b) is called once two elements are compared; a
\* number or a boolean has no localeCompare method and the call throws a
\* TypeError.  (The arrays of the model are homogeneous.)
LocaleSortThrows(elems) ==
  Len(elems) >= 2 /\ \E i \in 1..Len(elems) : elems[i].kind # "str"

\* ------------------------------------------------------- list encoder
\* Array.prototype.join(','): null and undefined elements are empty
JoinArray(elems) ==
  Join([i \in 1..Len(elems) |->
          IF elems[i].kind \in {"null", "undef"} THEN <<>> ELSE ToString(elems[i])],
       <<",">>)

\* the sort of the copied array: index.ts:171 sorts with the default
\* comparison, part_001:79 with (a, b) => a.localeCompare(b)
EncoderSortHow(v) == IF v = "part_001" THEN "locale" ELSE "default"

\* whether arrayToProcess.sort(...) throws on this array
EncoderSortThrows(v, elems) == v = "part_001" /\ LocaleSortThrows(elems)

\* the sort flag left unread: the copy is always sorted
EncodeArray_alwaysSorts(v, elems, sort) == JoinArray(Sort(EncoderSortHow(v), elems))

\* the value of the annotation of one array field
EncodeArray(v, elems, sort) ==
  JoinArray(IF sort THEN Sort(EncoderSortHow(v), elems) ELSE elems)

RECURSIVE EncodeListFields(_, _, _, _)
EncodeListFields(v, fields, i, sort) ==
  IF i > Len(fields) THEN <<>>
  ELSE IF fields[i].v.kind = "arr"
       THEN <<Annotation(fields[i].k, EncodeArray(v, Elems(fields[i].v), sort))>>
            \o EncodeListFields(v, fields, i + 1, sort)
       ELSE EncodeListFields(v, fields, i + 1, sort)

\* transformListPOJOToAnnotations of generation v: [thrown, value]
transformListPOJOToAnnotations(v, listObj, sort) ==
  IF sort /\ \E i \in 1..Len(listObj.c) :
               listObj.c[i].v.kind = "arr" /\ EncoderSortThrows(v, Elems(listObj.c[i].v))
  THEN [thrown |-> "TypeError", value |-> Annotations(<<>>, <<>>)]
  ELSE [thrown |-> "none",
        value |-> Annotations(EncodeListFields(v, listObj.c, 1, sort), <<>>)]

\* the caller's array had line 77 bound arrayToProcess to value itself:
\* the sort in place of lines 78-80 would then reorder it
ValueAfterEncode_aliased(v, elems, sort) ==
  IF sort /\ ~EncoderSortThrows(v, elems) THEN Sort(EncoderSortHow(v), elems) ELSE elems

\* the caller's array after the call: line 77 copies it, [...value], and the
\* sort in place and the join act on the copy only
ValueAfterEncode(v, elems, sort) == elems

\* the caller's record after transformListPOJOToAnnotations(listObj, sort):
\* no field is assigned, the arrays are as ValueAfterEncode leaves them
ListObjAfterEncode(v, listObj, sort) ==
  Obj([i \in 1..Len(listObj.c) |->
         IF listObj.c[i].v.kind = "arr"
         THEN Field(listObj.c[i].k,
                    Arr(ValueAfterEncode(v, Elems(listObj.c[i].v), sort)))
         ELSE listObj.c[i]])

\* ------------------------------------------------------- list decoder
RECURSIVE Split(_, _, _)
\* String.prototype.split(sep) for a one-character sep: cur is the item
\* being read; the empty string splits into one empty item
Split(chars, sep, cur) ==
  IF Len(chars) = 0 THEN <<cur>>
  ELSE IF Head(chars) = sep THEN <<cur>> \o Split(Tail(chars), sep, <<>>)
  ELSE Split(Tail(chars), sep, Append(cur, Head(chars)))

IsSpace(ch) == ch = " "

RECURSIVE TrimStart(_)
TrimStart(chars) ==
  IF Len(chars) > 0 /\ IsSpace(Head(chars)) THEN TrimStart(Tail(chars)) ELSE chars

RECURSIVE TrimEnd(_)
TrimEnd(chars) ==
  IF Len(chars) > 0 /\ IsSpace(chars[Len(chars)])
  THEN TrimEnd(SubSeq(chars, 1, Len(chars) - 1)) ELSE chars

\* String.prototype.trim
Trim(chars) == TrimEnd(TrimStart(chars))

RECURSIVE DigitRun(_, _)
\* how many digits chars holds from position i on
DigitRun(chars, i) ==
  IF i <= Len(chars) /\ IsDigit(chars[i]) THEN 1 + DigitRun(chars, i + 1) ELSE 0

RECURSIVE DecimalValue(_, _, _)
\* the number written by the digits chars[i..j]
DecimalValue(chars, i, j) ==
  IF j < i THEN 0 ELSE 10 * DecimalValue(chars, i, j - 1) + DigitVal(chars[j])

HexDigits == <<"0", "1", "2", "3", "4", "5", "6", "7", "8", "9",
               "a", "b", "c", "d", "e", "f">>
HexUpper == <<"0", "1", "2", "3", "4", "5", "6", "7", "8", "9",
              "A", "B", "C", "D", "E", "F">>
IsHexDigit(ch) == \E i \in 1..16 : HexDigits[i] = ch \/ HexUpper[i] = ch
HexVal(ch) == (CHOOSE i \in 1..16 : HexDigits[i] = ch \/ HexUpper[i] = ch) - 1

RECURSIVE HexValue(_, _, _)
HexValue(chars, i, j) ==
  IF j < i THEN 0 ELSE 16 * HexValue(chars, i, j - 1) + HexVal(chars[j])

StartsWith(chars, i, prefix) ==
  /\ i + Len(prefix) - 1 <= Len(chars)
  /\ \A j \in 1..Len(prefix) : chars[i + j - 1] = prefix[j]

\* parseFloat: white space is skipped, then the longest prefix that is a
\* decimal literal is read and what follows it is ignored; NaN when there is
\* no such prefix.  (Exact on strings without a fraction or an exponent, the
\* strings of this model.)
ParseFloat(str) ==
  LET chars == TrimStart(str)
      signed == Len(chars) > 0 /\ chars[1] \in {"+", "-"}
      neg == Len(chars) > 0 /\ chars[1] = "-"
      from == IF signed THEN 2 ELSE 1
      digits == DigitRun(chars, from)
  IN IF StartsWith(chars, from, sInfinity)
     THEN [Infinity EXCEPT !.n = IF neg THEN -1 ELSE 1]
     ELSE IF digits = 0 THEN NaN
     ELSE LET val == DecimalValue(chars, from, from + digits - 1)
          IN Num(IF neg THEN -val ELSE val)

\* Number(string): the whole trimmed string must be a numeric literal; the
\* empty string is 0 and 0x.. is read as hexadecimal.  (Exact on strings
\* without a fraction, an exponent, or a binary or octal prefix.)
ToNumber(str) ==
  LET chars == Trim(str)
      signed == Len(chars) > 0 /\ chars[1] \in {"+", "-"}
      neg == Len(chars) > 0 /\ chars[1] = "-"
      from == IF signed THEN 2 ELSE 1
      digits == DigitRun(chars, from)
  IN IF Len(chars) = 0 THEN Num(0)
     ELSE IF StartsWith(chars, from, sInfinity) /\ Len(chars) = from + Len(sInfinity) - 1
     THEN [Infinity EXCEPT !.n = IF neg THEN -1 ELSE 1]
     ELSE IF /\ Len(chars) > 2
             /\ chars[1] = "0"
             /\ chars[2] \in {"x", "X"}
             /\ \A i \in 3..Len(chars) : IsHexDigit(chars[i])
     THEN Num(HexValue(chars, 3, Len(chars)))
     ELSE IF digits > 0 /\ from + digits - 1 = Len(chars)
     THEN LET val == DecimalValue(chars, from, Len(chars))
          IN Num(IF neg THEN -val ELSE val)
     ELSE NaN

\* isFinite(x) for a number x
IsFinite(v) == v.kind = "num"

\* part_001:108: every item passes !isNaN(parseFloat(item)) && isFinite(Number(item))
AreAllNumeric(stringItems) ==
  /\ Len(stringItems) > 0
  /\ \A i \in 1..Len(stringItems) :
       ~IsNaN(ParseFloat(stringItems[i])) /\ IsFinite(ToNumber(stringItems[i]))

\* part_001:111
AreAllBooleans(stringItems) ==
  /\ Len(stringItems) > 0
  /\ \A i \in 1..Len(stringItems) : stringItems[i] = sTrue \/ stringItems[i] = sFalse

\* the sort of the string items: index.ts:222 default, part_001:130 localeCompare
DecoderSortHow(v) == IF v = "part_001" THEN "locale" ELSE "default"

\* the split with empty items dropped: the empty value gives no item
StringItems_dropsEmpty(value) ==
  LET parts == Split(value, ",", <<>>)
  IN SelectSeq([i \in 1..Len(parts) |-> Trim(parts[i])], LAMBDA item : Len(item) > 0)

\* annotation.value.split(',').map(item => item.trim())
StringItems(value) ==
  LET parts == Split(value, ",", <<>>)
  IN [i \in 1..Len(parts) |-> Trim(parts[i])]

\* the array one string annotation decodes to
DecodeList(v, value, convertBools, sort) ==
  LET stringItems == StringItems(value)
  IN IF AreAllNumeric(stringItems)
     THEN LET numericValues == [i \in 1..Len(stringItems) |-> ParseFloat(stringItems[i])]
          IN Arr(IF sort THEN Sort("numeric", numericValues) ELSE numericValues)
     ELSE IF convertBools /\ AreAllBooleans(stringItems)
     THEN LET booleanValues == [i \in 1..Len(stringItems) |-> Bool(stringItems[i] = sTrue)]
          IN Arr(IF sort THEN Sort("numeric", booleanValues) ELSE booleanValues)
     ELSE LET strs == [i \in 1..Len(stringItems) |-> Str(stringItems[i])]
          IN Arr(IF sort THEN Sort(DecoderSortHow(v), strs) ELSE strs)

RECURSIVE DecodeLists(_, _, _, _, _, _)
DecodeLists(v, anns, i, convertBools, sort, pojo) ==
  IF i > Len(anns) THEN pojo
  ELSE DecodeLists(v, anns, i + 1, convertBools, sort,
         SetField(pojo, anns[i].key, DecodeList(v, anns[i].value, convertBools, sort)))

\* transformAnnotationsToListPOJO of generation v
transformAnnotationsToListPOJO(v, anns, convertBools, sort) ==
  DecodeLists(v, anns.stringAnnotations, 1, convertBools, sort, Obj(<<>>))

\* ---------------------------------------------------- payload packager
RECURSIVE EscapeJSON(_)
\* the characters of a JSON string literal: quote and backslash are escaped
EscapeJSON(chars) ==
  IF Len(chars) = 0 THEN <<>>
  ELSE (IF Head(chars) \in {"\"", "\\"} THEN <<"\\", Head(chars)>> ELSE <<Head(chars)>>)
       \o EscapeJSON(Tail(chars))

QuoteJSON(chars) == <<"\"">> \o EscapeJSON(chars) \o <<"\"">>

RECURSIVE JSONStringify(_)
RECURSIVE StringifyMembers(_, _)
\* the members of an object: a field whose value is undefined is left out
StringifyMembers(fields, i) ==
  IF i > Len(fields) THEN <<>>
  ELSE IF fields[i].v.kind = "undef" THEN StringifyMembers(fields, i + 1)
  ELSE <<QuoteJSON(fields[i].k) \o <<":">> \o JSONStringify(fields[i].v)>>
       \o StringifyMembers(fields, i + 1)

\* JSON.stringify(value): NaN and the infinities are written null, and so is
\* an undefined element of an array
JSONStringify(v) ==
  CASE v.kind = "num" -> NumberToString(v.n)
    [] v.kind \in {"nan", "inf", "null", "undef"} -> sNull
    [] v.kind = "str" -> QuoteJSON(v.s)
    [] v.kind = "bool" -> IF v.n = 1 THEN sTrue ELSE sFalse
    [] v.kind = "obj" -> <<"{">> \o Join(StringifyMembers(v.c, 1), <<",">>) \o <<"}">>
    [] v.kind = "arr" ->
         <<"[">> \o Join([i \in 1..Len(v.c) |-> JSONStringify(v.c[i].v)], <<",">>) \o <<"]">>

Fail == [ok |-> FALSE, v |-> Undefined, pos |-> 0]
Ok(value, next) == [ok |-> TRUE, v |-> value, pos |-> next]

RECURSIVE SkipWs(_, _)
\* the first position from i on that holds no white space
SkipWs(chars, i) ==
  IF i <= Len(chars) /\ IsSpace(chars[i]) THEN SkipWs(chars, i + 1) ELSE i

RECURSIVE ParseStringBody(_, _, _)
\* a string literal from the character after its opening quote; of the
\* escapes, \" \\ and \/ are read (no other occurs in the texts of the model)
ParseStringBody(chars, i, acc) ==
  IF i > Len(chars) THEN Fail
  ELSE IF chars[i] = "\"" THEN Ok(Str(acc), i + 1)
  ELSE IF chars[i] = "\\"
       THEN IF i + 1 <= Len(chars) /\ chars[i + 1] \in {"\"", "\\", "/"}
            THEN ParseStringBody(chars, i + 2, Append(acc, chars[i + 1]))
            ELSE Fail
  ELSE ParseStringBody(chars, i + 1, Append(acc, chars[i]))

\* a number literal: -? (0 | [1-9][0-9]*); fractions and exponents are not
\* in the texts of the model
ParseNumber(chars, i) ==
  LET neg == chars[i] = "-"
      from == IF neg THEN i + 1 ELSE i
      run == DigitRun(chars, from)
      digits == IF run > 0 /\ chars[from] = "0" THEN 1 ELSE run
      val == DecimalValue(chars, from, from + digits - 1)
  IN IF digits = 0 THEN Fail
     ELSE Ok(Num(IF neg THEN -val ELSE val), from + digits)

RECURSIVE ParseValue(_, _)
RECURSIVE ParseElements(_, _, _)
RECURSIVE ParseMembers(_, _, _)

ParseValue(chars, i0) ==
  LET i == SkipWs(chars, i0)
  IN IF i > Len(chars) THEN Fail
     ELSE CASE chars[i] = "{" ->
                 LET j == SkipWs(chars, i + 1)
                 IN IF j <= Len(chars) /\ chars[j] = "}" THEN Ok(Obj(<<>>), j + 1)
                    ELSE ParseMembers(chars, j, Obj(<<>>))
            [] chars[i] = "[" ->
                 LET j == SkipWs(chars, i + 1)
                 IN IF j <= Len(chars) /\ chars[j] = "]" THEN Ok(Arr(<<>>), j + 1)
                    ELSE ParseElements(chars, j, <<>>)
            [] chars[i] = "\"" -> ParseStringBody(chars, i + 1, <<>>)
            [] chars[i] = "-" \/ IsDigit(chars[i]) -> ParseNumber(chars, i)
            [] StartsWith(chars, i, sTrue) -> Ok(Bool(TRUE), i + Len(sTrue))
            [] StartsWith(chars, i, sFalse) -> Ok(Bool(FALSE), i + Len(sFalse))
            [] StartsWith(chars, i, sNull) -> Ok(Null, i + Len(sNull))
            [] OTHER -> Fail

ParseElements(chars, i, acc) ==
  LET r == ParseValue(chars, i)
      j == SkipWs(chars, r.pos)
  IN IF ~r.ok \/ j > Len(chars) THEN Fail
     ELSE IF chars[j] = "," THEN ParseElements(chars, j + 1, Append(acc, r.v))
     ELSE IF chars[j] = "]" THEN Ok(Arr(Append(acc, r.v)), j + 1)
     ELSE Fail

ParseMembers(chars, i, obj) ==
  LET j == SkipWs(chars, i)
      key == ParseStringBody(chars, j + 1, <<>>)
      k == SkipWs(chars, key.pos)
      r == ParseValue(chars, k + 1)
      m == SkipWs(chars, r.pos)
  IN IF j > Len(chars) \/ chars[j] # "\"" THEN Fail
     ELSE IF ~key.ok \/ k > Len(chars) \/ chars[k] # ":" THEN Fail
     ELSE IF ~r.ok \/ m > Len(chars) THEN Fail
     ELSE IF chars[m] = "," THEN ParseMembers(chars, m + 1, SetField(obj, key.v.s, r.v))
     ELSE IF chars[m] = "}" THEN Ok(SetField(obj, key.v.s, r.v), m + 1)
     ELSE Fail

\* JSON.parse(text): [ok, v]; ok is FALSE where JSON.parse throws a SyntaxError
JSONParse(text) ==
  LET r == ParseValue(text, 1)
  IN IF r.ok /\ SkipWs(text, r.pos) > Len(text)
     THEN [ok |-> TRUE, v |-> r.v]
     ELSE [ok |-> FALSE, v |-> Undefined]

RECURSIVE IndexAnnotations_noOwnCheck(_, _, _, _)
\* the loop without the hasOwnProperty test: an absent key is read as
\* undefined and annotated
IndexAnnotations_noOwnCheck(sourceObject, indexes, i, numeric) ==
  IF i > Len(indexes) THEN <<>>
  ELSE LET key == indexes[i]
           value == Get(sourceObject, key)
           isNum == IsNumericValue(value)
           rest == IndexAnnotations_noOwnCheck(sourceObject, indexes, i + 1, numeric)
       IN IF numeric
          THEN IF isNum THEN <<Annotation(key, value)>> \o rest ELSE rest
          ELSE IF isNum THEN rest ELSE <<Annotation(key, ToString(value))>> \o rest

RECURSIVE IndexAnnotations(_, _, _, _)
\* the loop over indexes of prepareJSONObjectForGolem, for one output array
IndexAnnotations(sourceObject, indexes, i, numeric) ==
  IF i > Len(indexes) THEN <<>>
  ELSE LET key == indexes[i]
           value == Get(sourceObject, key)
           isNum == IsNumericValue(value)
           rest == IndexAnnotations(sourceObject, indexes, i + 1, numeric)
       IN IF ~HasOwn(sourceObject, key) THEN rest
          ELSE IF numeric
          THEN IF isNum THEN <<Annotation(key, value)>> \o rest ELSE rest
          ELSE IF isNum THEN rest ELSE <<Annotation(key, ToString(value))>> \o rest

\* the payload built from the indexed fields only
prepareJSONObjectForGolem_indexedOnly(sourceObject, indexes) ==
  [dataAsString |->
     JSONStringify(Obj(SelectSeq(sourceObject.c,
                                 LAMBDA f : \E i \in 1..Len(indexes) : indexes[i] = f.k))),
   annotations |-> Annotations(IndexAnnotations(sourceObject, indexes, 1, FALSE),
                               IndexAnnotations(sourceObject, indexes, 1, TRUE))]

prepareJSONObjectForGolem(sourceObject, indexes) ==
  [dataAsString |-> JSONStringify(sourceObject),
   annotations |-> Annotations(IndexAnnotations(sourceObject, indexes, 1, FALSE),
                               IndexAnnotations(sourceObject, indexes, 1, TRUE))]

NotValidJSONMessage ==
  "Failed to reconstruct object: The provided data string is not valid JSON."

\* the catch block returning null in place of throwing
reconstructObjectFromGolem_swallows(dataAsString) ==
  LET r == JSONParse(dataAsString)
  IN [thrown |-> "none", message |-> "", value |-> IF r.ok THEN r.v ELSE Null]

\* reconstructObjectFromGolem: [thrown, message, value]
reconstructObjectFromGolem(dataAsString) ==
  LET r == JSONParse(dataAsString)
  IN IF r.ok THEN [thrown |-> "none", message |-> "", value |-> r.v]
     ELSE [thrown |-> "Error", message |-> NotValidJSONMessage, value |-> Undefined]

\* ------------------------------------------------- inputs of the model
Variants == {"index_v1", "index_v2", "part_001"}
HasListTransformers(v) == v \in {"index_v2", "part_001"}
HasPayloadPackager(v) == v = "part_001"

kA == <<"a">>
kB == <<"b">>
NestedObject == Obj(<<Field(<<"v">>, Num(2))>>)

\* the values a field of a scalar record may hold
ScalarValues ==
  {Num(99), NaN, Str(sTrue), Str(sFalse), Str(<<"x">>), Bool(TRUE), Bool(FALSE),
   Null, NestedObject}

ScalarKeys == {kA, kB, sEntityKey}

RECURSIVE FieldSeqs(_, _, _)
\* the field lists of exactly n fields, keys distinct
FieldSeqs(keys, values, n) ==
  IF n = 0 THEN {<<>>}
  ELSE {Append(fs, Field(k, x)) :
          fs \in FieldSeqs(keys, values, n - 1), k \in keys, x \in values}

DistinctKeys(fs) == \A i, j \in 1..Len(fs) : fs[i].k = fs[j].k => i = j

RecordsUpTo(keys, values, n) ==
  {Obj(fs) : fs \in {x \in UNION {FieldSeqs(keys, values, m) : m \in 0..n} :
                       DistinctKeys(x)}}

ScalarRecords == RecordsUpTo(ScalarKeys, ScalarValues, MaxFields)

\* annotation collections handed to the scalar decoder directly
GivenStringValues ==
  {sTrue, sFalse, <<"T", "r", "u", "e">>, <<"x">>, <<>>, <<"1">>}

RECURSIVE AnnotationSeqs(_, _, _)
AnnotationSeqs(keys, values, n) ==
  IF n = 0 THEN {<<>>}
  ELSE AnnotationSeqs(keys, values, n - 1) \cup
       {Append(as, Annotation(k, x)) :
          as \in AnnotationSeqs(keys, values, n - 1), k \in keys, x \in values}

GivenAnnotations ==
  {Annotations(strs, nums) :
     strs \in AnnotationSeqs({kA, kB}, GivenStringValues, MaxFields),
     nums \in {<<>>, <<Annotation(<<"n">>, Num(7))>>, <<Annotation(kA, Num(7))>>}}

\* the elements of the arrays of a list record; every array is homogeneous
NumberElems == {Num(-5), Num(10), Num(9), NaN}
BooleanElems == {Bool(TRUE), Bool(FALSE)}
StringElems ==
  {Str(<<"Z", "o", "e">>), Str(<<"a", "d", "a", "m">>), Str(<<"1", "0">>),
   Str(sTrue), Str(<<" ", "a">>), Str(<<"a", ",", "b">>), Str(<<>>)}

SeqsUpTo(S, n) == UNION {[1..m -> S] : m \in 0..n}

Arrays ==
  {Arr(es) : es \in SeqsUpTo(NumberElems, MaxArrayLen)
                    \cup SeqsUpTo(BooleanElems, MaxArrayLen)
                    \cup SeqsUpTo(StringElems, MaxArrayLen)}

\* a list record: one array field, alone, before a second array field, or
\* after a field that is no array
ListRecords ==
  UNION {{Obj(<<Field(kA, a)>>),
          Obj(<<Field(kA, a), Field(kB, Arr(<<Str(<<"x">>)>>))>>),
          Obj(<<Field(kB, Str(<<"x">>)), Field(kA, a)>>)} : a \in Arrays}

\* annotation collections handed to the list decoder directly
GivenListValues ==
  {<<>>, <<"5", ",", "a", "b", "c">>, <<"1", ",", "2", ",", "3">>,
   <<"0", "x", "1", "0">>, <<"t", "r", "u", "e", ",", "f", "a", "l", "s", "e">>,
   <<" ", "7", " ", ",", "8">>, <<"5", "a", "b", "c">>}

GivenListAnnotations ==
  {Annotations(<<Annotation(kA, x)>>, <<>>) : x \in GivenListValues}

\* the values of a source object of the payload packager
JSONScalars ==
  {Num(10), Num(-5), Str(<<"a", "\"">>), Str(<<"\\">>), Bool(TRUE), Null}
NonJSONScalars == {NaN, Undefined}
NestedValues ==
  {Arr(<<>>), Obj(<<>>), Arr(<<Num(0), Str(<<",">>)>>),
   Arr(<<Obj(<<Field(<<"t">>, Str(<<"c">>))>>), Obj(<<Field(<<"t">>, Null)>>)>>),
   Obj(<<Field(kA, Arr(<<Bool(FALSE)>>)), Field(kB, Obj(<<>>))>>),
   Arr(<<Undefined>>)}
SourceValues == JSONScalars \cup NonJSONScalars \cup NestedValues
SourceKeys == {kA, <<"k", "\"">>}
SourceObjects == RecordsUpTo(SourceKeys, SourceValues, MaxFields)

IndexLists == {<<>>, <<kA>>, <<kA, <<"z">>>>, <<kB, kA, kA>>}

\* payload texts handed to reconstructObjectFromGolem directly: every text
\* of up to MaxTextLen characters of TextAlphabet, and the GivenTexts
TextAlphabet == {"0", "1", "-", "[", "]", ",", " ", "\""}
GivenTexts ==
  {<<"n", "o", "t", " ", "j", "s", "o", "n">>,
   <<"{", "\"", "a", "\"", ":", "1", "}">>,
   <<"{", "\"", "a", "\"", ":", "1", ",", "}">>,
   <<"{", "\"", "a", "\"", ":", "1">>,
   <<"{", "\"", "a", "\"", " ", "1", "}">>,
   <<"{", "a", ":", "1", "}">>,
   <<" ", "{", " ", "}", " ">>,
   <<"t", "r", "u">>, <<"t", "r", "u", "e">>, <<"n", "u", "l", "l", "0">>,
   <<"[", "f", "a", "l", "s", "e", ",", "n", "u", "l", "l", "]">>,
   <<"\"", "\\", "\"", "\"">>, <<"\"", "\\", "\"">>}
Texts == SeqsUpTo(TextAlphabet, MaxTextLen) \cup GivenTexts

NoAnnotations == Annotations(<<>>, <<>>)
NoFlags == [convertBools |-> FALSE, sort |-> FALSE, encodeSort |-> FALSE]
NoIndexes == <<>>

Input(kind, pojo, indexes) == [kind |-> kind, pojo |-> pojo, indexes |-> indexes]

\* what the caller starts from, under generation v
Inputs(v) ==
  {Input("pojo", r, NoIndexes) : r \in ScalarRecords}
  \cup {Input("annotations", Undefined, NoIndexes)}
  \cup (IF HasListTransformers(v)
        THEN {Input("listPojo", r, NoIndexes) : r \in ListRecords}
             \cup {Input("listAnnotations", Undefined, NoIndexes)}
        ELSE {})
  \cup (IF HasPayloadPackager(v)
        THEN {Input("source", r, ix) : r \in SourceObjects, ix \in IndexLists}
             \cup {Input("text", Undefined, NoIndexes)}
        ELSE {})

\* ------------------------------------------------------ state machine
Init ==
  /\ variant \in Variants
  /\ input \in Inputs(variant)
  /\ op = "init"
  /\ flags = NoFlags
  /\ annotations \in (CASE input.kind = "annotations" -> GivenAnnotations
                        [] input.kind = "listAnnotations" -> GivenListAnnotations
                        [] OTHER -> {NoAnnotations})
  /\ payload \in (IF input.kind = "text" THEN Texts ELSE {<<>>})
  /\ result = Undefined
  /\ thrown = [name |-> "none", message |-> ""]

TransformPOJOToKeyValuePairs ==
  /\ op = "init"
  /\ input.kind = "pojo"
  /\ annotations' = transformPOJOToKeyValuePairs(input.pojo)
  /\ op' = "transformPOJOToKeyValuePairs"
  /\ UNCHANGED <<variant, input, flags, result, payload, thrown>>

TransformAnnotationsToPOJO ==
  /\ \/ op = "transformPOJOToKeyValuePairs"
     \/ op = "init" /\ input.kind = "annotations"
  /\ \E convertBools \in BOOLEAN :
       /\ result' = transformAnnotationsToPOJO(variant, annotations, convertBools)
       /\ flags' = [flags EXCEPT !.convertBools = convertBools]
  /\ op' = "transformAnnotationsToPOJO"
  /\ UNCHANGED <<variant, input, annotations, payload, thrown>>

TransformListPOJOToAnnotations ==
  /\ op = "init"
  /\ input.kind = "listPojo"
  /\ \E sort \in BOOLEAN :
       LET r == transformListPOJOToAnnotations(variant, input.pojo, sort)
       IN /\ annotations' = r.value
          /\ thrown' = [name |-> r.thrown, message |-> ""]
          /\ flags' = [flags EXCEPT !.encodeSort = sort]
          /\ input' = [input EXCEPT !.pojo = ListObjAfterEncode(variant, input.pojo, sort)]
  /\ op' = "transformListPOJOToAnnotations"
  /\ UNCHANGED <<variant, result, payload>>

TransformAnnotationsToListPOJO ==
  /\ \/ op = "transformListPOJOToAnnotations" /\ thrown.name = "none"
     \/ op = "init" /\ input.kind = "listAnnotations"
  /\ \E convertBools \in BOOLEAN, sort \in BOOLEAN :
       /\ result' = transformAnnotationsToListPOJO(variant, annotations, convertBools, sort)
       /\ flags' = [flags EXCEPT !.convertBools = convertBools, !.sort = sort]
  /\ op' = "transformAnnotationsToListPOJO"
  /\ UNCHANGED <<variant, input, annotations, payload, thrown>>

PrepareJSONObjectForGolem ==
  /\ op = "init"
  /\ input.kind = "source"
  /\ LET r == prepareJSONObjectForGolem(input.pojo, input.indexes)
     IN /\ payload' = r.dataAsString
        /\ annotations' = r.annotations
  /\ op' = "prepareJSONObjectForGolem"
  /\ UNCHANGED <<variant, input, flags, result, thrown>>

ReconstructObjectFromGolem ==
  /\ \/ op = "prepareJSONObjectForGolem"
     \/ op = "init" /\ input.kind = "text"
  /\ LET r == reconstructObjectFromGolem(payload)
     IN /\ result' = r.value
        /\ thrown' = [name |-> r.thrown, message |-> r.message]
  /\ op' = "reconstructObjectFromGolem"
  /\ UNCHANGED <<variant, input, flags, annotations, payload>>

Next ==
  \/ TransformPOJOToKeyValuePairs
  \/ TransformAnnotationsToPOJO
  \/ TransformListPOJOToAnnotations
  \/ TransformAnnotationsToListPOJO
  \/ PrepareJSONObjectForGolem
  \/ ReconstructObjectFromGolem

Spec == Init /\ [][Next]_vars

\* ------------------------------------------------------------ claims
Encoded == op = "transformPOJOToKeyValuePairs"
Decoded == op = "transformAnnotationsToPOJO"
ScalarRoundTrip == Decoded /\ input.kind = "pojo"

\* how many annotations of the sequence carry the key
CountKey(anns, key) == Cardinality({i \in 1..Len(anns) : anns[i].key = key})

\* the key is carried by one annotation of the whole collection
UniqueKey(coll, key) ==
  CountKey(coll.stringAnnotations, key) + CountKey(coll.numericAnnotations, key) = 1

\* the string form the specification gives a value that is no number
CanonicalString(value) ==
  CASE value.kind = "null" -> sNull
    [] value.kind = "bool" /\ value.n = 1 -> sTrue
    [] value.kind = "bool" /\ value.n = 0 -> sFalse
    [] value.kind = "str" -> value.s
    [] value.kind = "nan" -> sNaN
    [] value.kind = "undef" -> sUndefined
    [] value.kind = "obj" -> sObject

\* C1: the scalar decoder turns the string annotation "true" into boolean
\* true and "false" into boolean false when convertBools is set, leaves every
\* other string annotation a string, leaves every string a string when
\* convertBools is not set, and leaves every numeric annotation unchanged.
\* (An annotation is looked at when no other annotation shares its key.)
C1_ScalarDecoderContract ==
  Decoded =>
    /\ \A i \in 1..Len(annotations.stringAnnotations) :
         LET a == annotations.stringAnnotations[i]
         IN UniqueKey(annotations, a.key) =>
              Get(result, a.key) =
                (IF flags.convertBools /\ a.value = sTrue THEN Bool(TRUE)
                 ELSE IF flags.convertBools /\ a.value = sFalse THEN Bool(FALSE)
                 ELSE Str(a.value))
    /\ \A i \in 1..Len(annotations.numericAnnotations) :
         LET a == annotations.numericAnnotations[i]
         IN UniqueKey(annotations, a.key) => Get(result, a.key) = a.value

\* C2: the scalar encoder's output holds no annotation whose key is
\* entityKey, whatever the record holds under that key.
C2_EntityKeyExcluded ==
  Encoded =>
    /\ CountKey(annotations.stringAnnotations, sEntityKey) = 0
    /\ CountKey(annotations.numericAnnotations, sEntityKey) = 0

\* the fields of the record that go to the numeric sequence, in field order
NumericFields(rec) == SelectSeq(rec.c, LAMBDA f : f.v.kind \in {"num", "inf"})
StringFields(rec) == SelectSeq(rec.c, LAMBDA f : f.v.kind \notin {"num", "inf"})

\* C3: the scalar encoder gives every field exactly one annotation with the
\* field's key: a number other than NaN goes to the numeric sequence
\* unchanged, every other value to the string sequence in its canonical
\* string form; each sequence is in the record's field order; nothing is
\* thrown.
C3_ScalarEncoderTotal ==
  Encoded =>
    /\ thrown.name = "none"
    /\ \A i \in 1..Len(input.pojo.c) : UniqueKey(annotations, input.pojo.c[i].k)
    /\ annotations.numericAnnotations =
         [i \in 1..Len(NumericFields(input.pojo)) |->
            Annotation(NumericFields(input.pojo)[i].k, NumericFields(input.pojo)[i].v)]
    /\ annotations.stringAnnotations =
         [i \in 1..Len(StringFields(input.pojo)) |->
            Annotation(StringFields(input.pojo)[i].k,
                       CanonicalString(StringFields(input.pojo)[i].v))]

\* C3 witness: a record with a NaN field before a number field was encoded
C3_Witness ==
  /\ Encoded
  /\ Len(input.pojo.c) = 2
  /\ input.pojo.c[1].v = NaN
  /\ input.pojo.c[2].v = Num(99)
  /\ Len(annotations.stringAnnotations) = 1
  /\ Len(annotations.numericAnnotations) = 1

\* C4 as claimed: without bool coercion the round trip gives back the keys
\* of the record and every original value, a boolean as its string form.
C4_RoundTripNoCoercion_Original ==
  (ScalarRoundTrip /\ ~flags.convertBools) =>
    /\ Keys(result) = Keys(input.pojo)
    /\ \A i \in 1..Len(input.pojo.c) :
         LET f == input.pojo.c[i]
         IN Get(result, f.k) =
              (IF f.v.kind = "bool" THEN Str(CanonicalString(f.v)) ELSE f.v)

\* C4 amended: without bool coercion the round trip gives back the keys of
\* the record; a string and a number other than NaN come back unchanged, and
\* every other value (boolean, NaN, null, undefined, object) comes back as
\* its string form.
C4_RoundTripNoCoercion ==
  (ScalarRoundTrip /\ ~flags.convertBools) =>
    /\ Keys(result) = Keys(input.pojo)
    /\ \A i \in 1..Len(input.pojo.c) :
         LET f == input.pojo.c[i]
         IN Get(result, f.k) =
              (IF f.v.kind \in {"str", "num", "inf"} THEN f.v
               ELSE Str(CanonicalString(f.v)))

\* C4 witness: a round trip without coercion of a boolean and a null field
C4_Witness ==
  /\ ScalarRoundTrip
  /\ ~flags.convertBools
  /\ \E i, j \in 1..Len(input.pojo.c) :
       /\ input.pojo.c[i].v = Bool(TRUE)
       /\ input.pojo.c[j].v = Null
       /\ Get(result, input.pojo.c[i].k) = Str(sTrue)
       /\ Get(result, input.pojo.c[j].k) = Str(sNull)

\* the record's fields are strings, numbers or booleans
TypedScalarRecord(rec) ==
  \A i \in 1..Len(rec.c) : TypeOf(rec.c[i].v) \in {"string", "number", "boolean"}

\* C5: with bool coercion the round trip of a record of strings, numbers
\* and booleans gives back the record: every field with its value and type.
C5_RoundTripCoercion ==
  (ScalarRoundTrip /\ flags.convertBools /\ TypedScalarRecord(input.pojo)) =>
    /\ Keys(result) = Keys(input.pojo)
    /\ \A i \in 1..Len(input.pojo.c) :
         Get(result, input.pojo.c[i].k) = input.pojo.c[i].v

ListEncoded == op = "transformListPOJOToAnnotations"
ListDecoded == op = "transformAnnotationsToListPOJO"
ListRoundTrip == ListDecoded /\ input.kind = "listPojo"

\* every field of the record is an array
AllArrays(rec) == \A i \in 1..Len(rec.c) : rec.c[i].v.kind = "arr"

\* how often x occurs in the sequence
Occurrences(seq, x) == Cardinality({i \in 1..Len(seq) : seq[i] = x})

\* the same elements with the same types, each as often
SameElements(a, b) ==
  /\ Len(a) = Len(b)
  /\ \A i \in 1..Len(a) : Occurrences(a, a[i]) = Occurrences(b, a[i])

\* strings in lexicographic order, numbers ascending, false before true
InClaimedOrder(seq) ==
  \A i \in 1..(Len(seq) - 1) :
    IF seq[i].kind = "str" THEN CodeUnitCompare(seq[i].s, seq[i + 1].s) <= 0
    ELSE seq[i].n <= seq[i + 1].n

\* C6: with the defaults (sort on both sides, bool coercion) the list round
\* trip of a record of arrays of strings, numbers or booleans comes about and
\* maps every field to an array of the same elements with the same types, in
\* order: strings lexicographically, numbers ascending, false before true.
C6_ListRoundTripDefaults ==
  /\ (ListEncoded /\ flags.encodeSort /\ AllArrays(input.pojo)) => thrown.name = "none"
  /\ (ListRoundTrip /\ AllArrays(input.pojo)
        /\ flags.encodeSort /\ flags.sort /\ flags.convertBools) =>
       \A i \in 1..Len(input.pojo.c) :
         LET out == Get(result, input.pojo.c[i].k)
         IN /\ out.kind = "arr"
            /\ SameElements(Elems(out), Elems(input.pojo.c[i].v))
            /\ InClaimedOrder(Elems(out))

\* C7 as claimed: without sorting on either side and with bool coercion, the
\* list round trip gives back every array as it was.
C7_ListRoundTripNoSort_Original ==
  (ListRoundTrip /\ AllArrays(input.pojo)
     /\ ~flags.encodeSort /\ ~flags.sort /\ flags.convertBools) =>
    \A i \in 1..Len(input.pojo.c) :
      Get(result, input.pojo.c[i].k) = input.pojo.c[i].v

HasComma(chars) == \E i \in 1..Len(chars) : chars[i] = ","

\* the arrays the amended C7 is about: not empty, and of finite numbers, of
\* booleans, or of strings without a comma and without white space at either
\* end that the decoder takes neither all for numbers nor all for booleans
SurvivesRoundTrip(elems) ==
  /\ Len(elems) > 0
  /\ \/ \A i \in 1..Len(elems) : elems[i].kind = "num"
     \/ \A i \in 1..Len(elems) : elems[i].kind = "bool"
     \/ /\ \A i \in 1..Len(elems) :
             /\ elems[i].kind = "str"
             /\ ~HasComma(elems[i].s)
             /\ Trim(elems[i].s) = elems[i].s
        /\ ~AreAllNumeric([i \in 1..Len(elems) |-> elems[i].s])
        /\ ~AreAllBooleans([i \in 1..Len(elems) |-> elems[i].s])

\* C7 amended: without sorting on either side and with bool coercion, the
\* list round trip gives back every array field that is not empty and holds
\* finite numbers, booleans, or strings without a comma and without white
\* space at either end that are neither all numeric texts nor all "true" or
\* "false": same length, elements, types and order.
C7_ListRoundTripNoSort ==
  (ListRoundTrip /\ ~flags.encodeSort /\ ~flags.sort /\ flags.convertBools) =>
    \A i \in 1..Len(input.pojo.c) :
      (input.pojo.c[i].v.kind = "arr" /\ SurvivesRoundTrip(Elems(input.pojo.c[i].v))) =>
        Get(result, input.pojo.c[i].k) = input.pojo.c[i].v

\* C7 witness: the unsorted round trip of [10, 9] gave [10, 9] back
C7_Witness ==
  /\ ListRoundTrip
  /\ ~flags.encodeSort /\ ~flags.sort /\ flags.convertBools
  /\ Get(input.pojo, kA) = Arr(<<Num(10), Num(9)>>)
  /\ Get(result, kA) = Arr(<<Num(10), Num(9)>>)

\* C8: the list encoder with sort = true throws nothing on a record whose
\* arrays hold strings, numbers or booleans, and the annotation of an array
\* of numbers or of booleans joins the elements ordered by the lexicographic
\* comparison of their string forms.
C8_ListEncoderNeverThrows ==
  (ListEncoded /\ flags.encodeSort) =>
    /\ thrown.name = "none"
    /\ \A i \in 1..Len(input.pojo.c) :
         LET f == input.pojo.c[i]
         IN (f.v.kind = "arr" /\ \A j \in 1..Len(f.v.c) : f.v.c[j].v.kind # "str") =>
              \E a \in 1..Len(annotations.stringAnnotations) :
                /\ annotations.stringAnnotations[a].key = f.k
                /\ annotations.stringAnnotations[a].value =
                     JoinArray(Sort("default", Elems(f.v)))

Prepared == op = "prepareJSONObjectForGolem"
Reconstructed == op = "reconstructObjectFromGolem"

RECURSIVE IsJSONValue(_)
\* a value JSON can write: no NaN, no infinity, no undefined at any depth
IsJSONValue(v) ==
  /\ v.kind \notin {"nan", "inf", "undef"}
  /\ \A i \in 1..Len(v.c) : IsJSONValue(v.c[i].v)

RECURSIVE DeepEqual(_, _)
\* deep equality: objects by their keys, whatever the order, arrays by position
DeepEqual(a, b) ==
  /\ a.kind = b.kind
  /\ CASE a.kind = "obj" ->
            /\ Len(a.c) = Len(b.c)
            /\ Keys(a) = Keys(b)
            /\ \A i \in 1..Len(a.c) : DeepEqual(a.c[i].v, Get(b, a.c[i].k))
       [] a.kind = "arr" ->
            /\ Len(a.c) = Len(b.c)
            /\ \A i \in 1..Len(a.c) : DeepEqual(a.c[i].v, b.c[i].v)
       [] OTHER -> a = b

\* C9: unpacking the payload of a packed JSON-serializable record gives a
\* record deep-equal to it, and the payload is the one packed with no index
\* keys at all.
C9_PayloadRoundTrip ==
  /\ Prepared => payload = prepareJSONObjectForGolem(input.pojo, NoIndexes).dataAsString
  /\ (Reconstructed /\ input.kind = "source" /\ IsJSONValue(input.pojo)) =>
       /\ thrown.name = "none"
       /\ DeepEqual(result, input.pojo)

\* C9 witness: a record with a nested array of objects and a string holding
\* a quote, packed with index keys, was unpacked
C9_Witness ==
  /\ Reconstructed
  /\ input.kind = "source"
  /\ input.indexes = <<kB, kA, kA>>
  /\ Get(input.pojo, kA) =
       Arr(<<Obj(<<Field(<<"t">>, Str(<<"c">>))>>), Obj(<<Field(<<"t">>, Null)>>)>>)
  /\ Get(input.pojo, <<"k", "\"">>) = Str(<<"a", "\"">>)
  /\ result = input.pojo

\* the JSON grammar, written as the set of its texts of up to n characters
\* over TextAlphabet: numbers, strings, arrays, white space around values
Shorter(S, n) == {x \in S : Len(x) <= n}
Cat(A, B, n) == Shorter({a \o b : a \in A, b \in B}, n)
WhiteSpace(n) == SeqsUpTo({" "}, n)
Padded(S, n) == Cat(WhiteSpace(n), Cat(S, WhiteSpace(n), n), n)
NumberTexts(n) ==
  LET nat == {<<"0">>} \cup Cat({<<"1">>}, SeqsUpTo({"0", "1"}, n), n)
  IN Shorter(nat \cup Cat({<<"-">>}, nat, n), n)
StringTexts(n) ==
  IF n < 2 THEN {}
  ELSE Cat({<<"\"">>}, Cat(SeqsUpTo(TextAlphabet \ {"\""}, n - 2), {<<"\"">>}, n), n)

RECURSIVE ElementTexts(_, _, _)
\* one to count values, each padded, with commas between them
ElementTexts(V, n, count) ==
  IF count <= 1 THEN Padded(V, n)
  ELSE ElementTexts(V, n, count - 1)
       \cup Cat(Padded(V, n), Cat({<<",">>}, ElementTexts(V, n, count - 1), n), n)

RECURSIVE ValueTexts(_, _)
\* the values nested at most depth arrays deep
ValueTexts(depth, n) ==
  LET flat == NumberTexts(n) \cup StringTexts(n)
  IN IF depth = 0 \/ n < 2 THEN flat
     ELSE flat
          \cup Cat({<<"[">>}, Cat(WhiteSpace(n), {<<"]">>}, n), n)
          \cup Cat({<<"[">>},
                   Cat(ElementTexts(ValueTexts(depth - 1, n - 2), n - 2, n), {<<"]">>}, n), n)

ValidTexts == Padded(ValueTexts(MaxTextLen, MaxTextLen), MaxTextLen)

\* the GivenTexts that are JSON texts
ValidGivenTexts ==
  {<<"{", "\"", "a", "\"", ":", "1", "}">>,
   <<" ", "{", " ", "}", " ">>,
   <<"t", "r", "u", "e">>,
   <<"[", "f", "a", "l", "s", "e", ",", "n", "u", "l", "l", "]">>,
   <<"\"", "\\", "\"", "\"">>}

\* the payload is a JSON text: what JSON.stringify wrote, or a text of the
\* grammar
ValidJSON ==
  \/ input.kind = "source"
  \/ payload \in ValidTexts \cup ValidGivenTexts

\* C10: unpack of a text that is not valid JSON throws the error of
\* part_001:183, with its explanation, and returns nothing; no other
\* operation throws that error; unpack of valid JSON throws nothing.
C10_MalformedPayload ==
  /\ Reconstructed =>
       IF ValidJSON THEN thrown.name = "none"
       ELSE /\ thrown = [name |-> "Error", message |-> NotValidJSONMessage]
            /\ result = Undefined
  /\ thrown.name = "Error" => Reconstructed

\* C10 witness: unpack was given the text "not json" and threw
C10_Witness ==
  /\ Reconstructed
  /\ payload = <<"n", "o", "t", " ", "j", "s", "o", "n">>
  /\ thrown.name = "Error"
  /\ thrown.message = NotValidJSONMessage

\* the entries of indexes that are own fields of the record and whose value
\* is (numeric) or is not (~numeric) a number other than NaN, in their order
IndexedKeys(rec, indexes, numeric) ==
  SelectSeq(indexes,
            LAMBDA key : /\ \E i \in 1..Len(rec.c) : rec.c[i].k = key
                         /\ (Get(rec, key).kind \in {"num", "inf"}) = numeric)

\* C11: pack annotates each entry of indexKeys that is an own field of the
\* record, once, classified as by the scalar encoder: a number other than
\* NaN in the numeric sequence, unchanged, every other value in the string
\* sequence as its string form; an index key absent from the record and a
\* field not named in indexKeys get no annotation.
C11_IndexAnnotations ==
  Prepared =>
    /\ annotations.numericAnnotations =
         [i \in 1..Len(IndexedKeys(input.pojo, input.indexes, TRUE)) |->
            LET key == IndexedKeys(input.pojo, input.indexes, TRUE)[i]
            IN Annotation(key, Get(input.pojo, key))]
    /\ annotations.stringAnnotations =
         [i \in 1..Len(IndexedKeys(input.pojo, input.indexes, FALSE)) |->
            LET key == IndexedKeys(input.pojo, input.indexes, FALSE)[i]
            IN Annotation(key, ToString(Get(input.pojo, key)))]
    /\ \A key \in Keys(input.pojo) :
         (\A i \in 1..Len(input.indexes) : input.indexes[i] # key) =>
           /\ CountKey(annotations.stringAnnotations, key) = 0
           /\ CountKey(annotations.numericAnnotations, key) = 0
    /\ \A i \in 1..Len(input.indexes) :
         ~HasOwn(input.pojo, input.indexes[i]) =>
           /\ CountKey(annotations.stringAnnotations, input.indexes[i]) = 0
           /\ CountKey(annotations.numericAnnotations, input.indexes[i]) = 0

\* C11 witness: a record with a number under a and another field was packed
\* with the index keys a and z, z absent: one numeric annotation, for a
C11_Witness ==
  /\ Prepared
  /\ input.indexes = <<kA, <<"z">>>>
  /\ Get(input.pojo, kA) = Num(10)
  /\ Len(input.pojo.c) = 2
  /\ annotations = Annotations(<<>>, <<Annotation(kA, Num(10))>>)

\* C12: decoding an annotation collection that the scalar encoder or the
\* list encoder produced, and encoding the decoded record again with the
\* same sort and convertBools flags, gives the same collection: the same
\* keys, values and sequence for each annotation, and no exception.
C12_Idempotence ==
  /\ ScalarRoundTrip => transformPOJOToKeyValuePairs(result) = annotations
  /\ (ListRoundTrip /\ flags.sort = flags.encodeSort) =>
       transformListPOJOToAnnotations(variant, result, flags.encodeSort) =
         [thrown |-> "none", value |-> annotations]

\* the text of a decimal integer: an optional sign, then digits only
IsDecimalText(item) ==
  /\ Len(item) > 0
  /\ LET from == IF item[1] \in {"+", "-"} THEN 2 ELSE 1
     IN /\ from <= Len(item)
        /\ \A i \in from..Len(item) : \E d \in 1..10 : Digits[d] = item[i]

RECURSIVE Magnitude(_)
\* the natural number a digit string denotes
Magnitude(digits) ==
  IF Len(digits) = 0 THEN 0
  ELSE 10 * Magnitude(SubSeq(digits, 1, Len(digits) - 1))
       + (CHOOSE d \in 0..9 : Digits[d + 1] = digits[Len(digits)])

\* the number a decimal text denotes
Denoted(item) ==
  IF item[1] = "-" THEN Num(0 - Magnitude(Tail(item)))
  ELSE IF item[1] = "+" THEN Num(Magnitude(Tail(item)))
  ELSE Num(Magnitude(item))

\* the array the specification gives a list of trimmed items
ClassifiedItems(items, convertBools) ==
  IF \A i \in 1..Len(items) : IsDecimalText(items[i])
  THEN [i \in 1..Len(items) |-> Denoted(items[i])]
  ELSE IF convertBools /\ \A i \in 1..Len(items) : items[i] \in {sTrue, sFalse}
  THEN [i \in 1..Len(items) |-> Bool(items[i] = sTrue)]
  ELSE [i \in 1..Len(items) |-> Str(items[i])]

\* C13: the list decoder decodes a field to numbers exactly when every
\* trimmed item is the text of a finite decimal number, each item to the
\* number it denotes; otherwise to booleans exactly when convertBools is set
\* and every item is "true" or "false"; otherwise to the trimmed strings.
\* With sort unset the items keep their order.
C13_ListDecoderClassification ==
  ListDecoded =>
    \A i \in 1..Len(annotations.stringAnnotations) :
      LET ann == annotations.stringAnnotations[i]
          got == Elems(Get(result, ann.key))
          claimed == ClassifiedItems(StringItems(ann.value), flags.convertBools)
      IN /\ SameElements(got, claimed)
         /\ ~flags.sort => got = claimed

\* C14: the list encoder leaves the record it is given, and every array in
\* it, with the same elements in the same order, for either value of sort;
\* the list decoder leaves the annotation collection it is given unchanged.
C14_NoInputMutation ==
  [][/\ op' = "transformListPOJOToAnnotations" => input' = input
     /\ op' = "transformAnnotationsToListPOJO" => annotations' = annotations]_vars

\* C14 witness: [9, 10] was encoded with sort set, the default comparison
\* putting "10" before "9" in the annotation, and decoded again: the
\* caller's array is still [9, 10] and the annotation still "10,9"
C14_Witness ==
  /\ ListRoundTrip
  /\ variant = "index_v2"
  /\ flags.encodeSort
  /\ input.pojo = Obj(<<Field(kA, Arr(<<Num(9), Num(10)>>))>>)
  /\ annotations = Annotations(<<Annotation(kA, <<"1", "0", ",", "9">>)>>, <<>>)
  /\ Get(result, kA) = Arr(<<Num(9), Num(10)>>)

====
